---------------------------- MODULE Spec2Model ----------------------------
(***************************************************************************)
(* A state-machine model of the two example notebooks of project-pareto:   *)
(*                                                                         *)
(*   MVR  integrated_optimization_mvr_jupyter_notebook.ipynb               *)
(*        (load data, build the integrated model, solve with IPOPT,        *)
(*        print the costs, back-calculate the MEE-MVR design)              *)
(*   MD   Membrane_Distillation/MD_PARETO.ipynb                            *)
(*        (sliders, check boxes, run_simulation, on_run_button_clicked)    *)
(*                                                                         *)
(* The library calls the notebooks make (get_data, integrated_model_build, *)
(* md_flow.*, the nonlinear solver) are not part of the notebooks; they    *)
(* are modelled from the contracts of the design specification and marked  *)
(* as such where they are defined.                                         *)
(***************************************************************************)
EXTENDS Integers, Sequences, FiniteSets, TLC

VARIABLES
    \* ---- MVR notebook: kernel namespace and progress of one Run All
    nb_pc,              \* the next cell to execute, "done" or "halted"
    nb_input,           \* what this run is given: the workbook and the selection
    network_data,       \* global network_data (cell 7cbb003f)
    desalination_dict,  \* global desalination_dict (cell fba6a38c)
    m,                  \* global m, the integrated model (cell 5f7bea3e)
    ipopt_options,      \* ipopt.options of the global solver object (cell 935eb62c)
    termination,        \* the TerminationReports of this run, one per solver invocation
    solveCalls,         \* executions of the solve cell in this run
    solverInvocations,  \* invocations of the external solver in this run
    printed,            \* what the results cell has printed in this run
    design,             \* what back_calculate_design returned
    nb_error,           \* the exception that halted the run, or None
    history,            \* outcome of each earlier run of the sweep
    \* ---- MD notebook: widgets, handler position, handler locals, output area
    salinity_widget,
    flowrate_widget,
    recovery_widget,
    checkboxes,
    md_pc,
    md_local,
    output,
    \* ---- solve applied to drawn inputs
    sv_model,
    sv_options,
    sv_report

nbVars == <<nb_pc, nb_input, network_data, desalination_dict, m, ipopt_options,
            termination, solveCalls, solverInvocations, printed, design,
            nb_error, history>>
mdVars == <<salinity_widget, flowrate_widget, recovery_widget, checkboxes,
            md_pc, md_local, output>>
svVars == <<sv_model, sv_options, sv_report>>
vars == <<nbVars, mdVars, svVars>>

\* an unbound name, an absent value
None == [none |-> TRUE]
\* no exception
NoError == "no error"

\* ------------------------------------------------------------------ bounds
\* re-executions of the solve cell a user makes in one run
MaxSolves == 2
\* executions of the results cell in one run
MaxPrints == 2
\* runs of one sweep
MaxRuns == 2
\* candidate solution points the solver may leave in the model (0..MaxPoint)
MaxPoint == 1
\* time periods of the loaded network (s_T = 1..NumPeriods)
NumPeriods == 2
\* largest maxIterations option drawn
MaxIter == 2

\* ------------------------------------------------------------------ helpers
RECURSIVE SetSum(_, _)
SetSum(S, f) ==
    IF S = {} THEN 0
    ELSE LET x == CHOOSE y \in S : TRUE IN f[x] + SetSum(S \ {x}, f)

Last(s) == s[Len(s)]

\* ------------------------------------------------- the nonlinear solver
\* TerminationReport.status
Statuses == {"Optimal", "FeasibleSuboptimal", "Infeasible", "SolverError",
             "IterationLimit"}
FailedStatuses == {"Infeasible", "SolverError", "IterationLimit"}
SolvedStatuses == {"Optimal", "FeasibleSuboptimal"}

\* what the external solver can report
SolverConditions == {"optimal", "acceptable", "primal_infeasible",
                     "dual_infeasible", "max_iterations", "crash", "license",
                     "numerical_failure"}

\* maxIterations is a set: {n} for a limit of n, {} when the option is left
\* unset and the solver's own default limit, which is not 0, applies.
DefaultIterations == {}

\* The conditions the solver can end in on a model, by its feasibility and the
\* iteration limit: with a limit of 0 the limit is exceeded before any
\* convergence test.
SolverRun(feasible, maxIterations) ==
    IF maxIterations = {0} THEN {"max_iterations"}
    ELSE (IF feasible THEN {"optimal", "acceptable"}
                      ELSE {"primal_infeasible", "dual_infeasible"})
         \cup {"max_iterations", "crash", "license", "numerical_failure"}

\* a classification that reports an exceeded iteration limit as a solver error
Classify_LimitAsError(condition) ==
    CASE condition = "optimal" -> "Optimal"
      [] condition = "acceptable" -> "FeasibleSuboptimal"
      [] condition \in {"primal_infeasible", "dual_infeasible"} -> "Infeasible"
      [] OTHER -> "SolverError"

\* The classification policy of SolveOrchestrator.
Classify(condition) ==
    CASE condition = "optimal" -> "Optimal"
      [] condition = "acceptable" -> "FeasibleSuboptimal"
      [] condition \in {"primal_infeasible", "dual_infeasible"} -> "Infeasible"
      [] condition = "max_iterations" -> "IterationLimit"
      [] OTHER -> "SolverError"

\* One TerminationReport for one solver condition; the objective is present
\* only for a solved status.
Report(condition, point) ==
    [status |-> Classify(condition),
     objective |-> IF Classify(condition) \in SolvedStatuses THEN <<point>> ELSE <<>>]


\* =================================================================== MVR
\* nb_pc names the next cell in document order: "load", "dict", "build",
\* "solve", "results", "backcalc" (the import cells bind names only).

\* Site names a workbook or a selection may name.
SiteNames == {"R01_IN", "R02_IN", "R01"}
\* The site sets a workbook may declare.
WorkbookSites == {{"R01_IN"}, {"R01_IN", "R02_IN"}}
\* SiteDesignSelection: one site and its number of evaporator stages (the
\* notebook asks for one stage).
Selections == [site : SiteNames, stages : {1}]

\* What one run is given: whether the workbook is well formed, the sites it
\* declares, the selection, and whether the resulting problem is feasible.
NbInputs == [fileOK : BOOLEAN, sites : WorkbookSites, selection : Selections,
             feasible : BOOLEAN]

\* get_data + data_parser: a malformed workbook is a DataFormatError.
GetData(input) ==
    IF input.fileOK
    THEN [ok |-> TRUE,
          value |-> [sites |-> input.sites, s_T |-> 1..NumPeriods, p_dt |-> 7,
                     feasible |-> input.feasible]]
    ELSE [ok |-> FALSE, error |-> "DataFormatError"]

\* The values of the model's variables at candidate point k.
ValuesAt(k, nodes, periods) ==
    [arc_cost |-> k, disp_cost |-> k, fresh_cost |-> k, stor_cost |-> k,
     stor_rev |-> k, treat_rev |-> k,
     OPEX |-> [st \in nodes \X periods |-> k],
     CAPEX |-> [s \in nodes |-> k]]

\* integrated_model_build: a selection naming a site the network does not
\* have is a ConfigurationError and no model is constructed.
IntegratedModelBuild(data, treatment_dict) ==
    IF treatment_dict.site \notin data.sites
    THEN [ok |-> FALSE, error |-> "ConfigurationError"]
    ELSE [ok |-> TRUE,
          value |-> [treatment_dict |-> treatment_dict,
                     desalination_nodes |-> {treatment_dict.site},
                     s_T |-> data.s_T, p_dt |-> data.p_dt,
                     feasible |-> data.feasible,
                     values |-> ValuesAt(0, {treatment_dict.site}, data.s_T)]]

\* back_calculate_design: the sizing of the unit at each selected site.
BackCalculateDesign(model, treatment_dict) ==
    [site |-> treatment_dict.site, stages |-> treatment_dict.stages,
     from |-> model.values.arc_cost]

\* The eight quantities the results cell prints, in the order it prints them.
\* (The notebook divides floats by 365; here the division is the last step.)
ResultsReport(model) ==
    [piping |-> model.values.arc_cost,
     disposal |-> model.values.disp_cost,
     freshwater |-> model.values.fresh_cost,
     storage |-> model.values.stor_cost,
     storage_revenue |-> model.values.stor_rev,
     treatment_revenue |-> model.values.treat_rev,
     opex |-> (1000 * SetSum(model.desalination_nodes \X model.s_T,
                             [st \in model.desalination_nodes \X model.s_T |->
                                 model.values.OPEX[st] * model.p_dt])) \div 365,
     capex |-> (1000 * SetSum(model.desalination_nodes, model.values.CAPEX)
                     * model.p_dt * Cardinality(model.s_T)) \div 365]

\* What ipopt.options holds after the solve cell's two assignments.
NotebookOptions == [mu_init |-> "1e-6", bound_push |-> "1e-6"]

Halt(err) ==
    /\ nb_pc' = "halted"
    /\ nb_error' = err

\* cell 7cbb003f
LoadCell ==
    /\ nb_pc = "load"
    /\ LET r == GetData(nb_input) IN
         IF r.ok
         THEN /\ network_data' = r.value
              /\ nb_pc' = "dict"
              /\ UNCHANGED nb_error
         ELSE /\ Halt(r.error)
              /\ UNCHANGED network_data
    /\ UNCHANGED <<nb_input, desalination_dict, m, ipopt_options, termination,
                   solveCalls, solverInvocations, printed, design, history>>
    /\ UNCHANGED <<mdVars, svVars>>

\* cell fba6a38c
DictCell ==
    /\ nb_pc = "dict"
    /\ desalination_dict' = nb_input.selection
    /\ nb_pc' = "build"
    /\ UNCHANGED <<nb_input, network_data, m, ipopt_options, termination,
                   solveCalls, solverInvocations, printed, design, nb_error,
                   history>>
    /\ UNCHANGED <<mdVars, svVars>>

\* a build cell that binds a partial model and goes on when the build fails
BuildCell_Partial ==
    /\ nb_pc = "build"
    /\ LET r == IntegratedModelBuild(network_data, nb_input.selection) IN
         m' = IF r.ok THEN r.value
              ELSE [treatment_dict |-> nb_input.selection,
                    desalination_nodes |-> {},
                    s_T |-> network_data.s_T, p_dt |-> network_data.p_dt,
                    feasible |-> FALSE,
                    values |-> ValuesAt(0, {}, network_data.s_T)]
    /\ nb_pc' = "solve"
    /\ UNCHANGED <<nb_input, network_data, desalination_dict, ipopt_options,
                   termination, solveCalls, solverInvocations, printed, design,
                   nb_error, history>>
    /\ UNCHANGED <<mdVars, svVars>>

\* cell 5f7bea3e: m is bound only when integrated_model_build returns
BuildCell ==
    /\ nb_pc = "build"
    /\ LET r == IntegratedModelBuild(network_data, nb_input.selection) IN
         IF r.ok
         THEN /\ m' = r.value
              /\ nb_pc' = "solve"
              /\ UNCHANGED nb_error
         ELSE /\ Halt(r.error)
              /\ UNCHANGED m
    /\ UNCHANGED <<nb_input, network_data, desalination_dict, ipopt_options,
                   termination, solveCalls, solverInvocations, printed, design,
                   history>>
    /\ UNCHANGED <<mdVars, svVars>>


\* a solve that initializes again and invokes the solver a second time when the
\* first invocation fails
IpoptSolve_Retry(nextpc) ==
    /\ ipopt_options' = NotebookOptions
    /\ \E c1 \in SolverRun(m.feasible, DefaultIterations), k1 \in 0..MaxPoint :
         IF Classify(c1) \in FailedStatuses
         THEN \E c2 \in SolverRun(m.feasible, DefaultIterations), k2 \in 0..MaxPoint :
                /\ m' = [m EXCEPT !.values = ValuesAt(k2, m.desalination_nodes, m.s_T)]
                /\ termination' = Append(termination, Report(c2, k2))
                /\ solverInvocations' = solverInvocations + 2
         ELSE /\ m' = [m EXCEPT !.values = ValuesAt(k1, m.desalination_nodes, m.s_T)]
              /\ termination' = Append(termination, Report(c1, k1))
              /\ solverInvocations' = solverInvocations + 1
    /\ solveCalls' = solveCalls + 1
    /\ nb_pc' = nextpc
    /\ UNCHANGED nb_error

\* a solve whose failed outcome is raised as an exception
IpoptSolve_Raises(nextpc) ==
    /\ ipopt_options' = NotebookOptions
    /\ \E c \in SolverRun(m.feasible, DefaultIterations), k \in 0..MaxPoint :
         /\ m' = [m EXCEPT !.values = ValuesAt(k, m.desalination_nodes, m.s_T)]
         /\ termination' = Append(termination, Report(c, k))
         /\ IF Classify(c) \in FailedStatuses
            THEN Halt(Classify(c))
            ELSE nb_pc' = nextpc /\ UNCHANGED nb_error
    /\ solverInvocations' = solverInvocations + 1
    /\ solveCalls' = solveCalls + 1

\* cell 935eb62c: the solver object is made, its two options are assigned and
\* the solver is invoked once on m; the solver leaves its last point in m and
\* its result is the cell's value.  No max_iter is set.
IpoptSolve(nextpc) ==
    /\ ipopt_options' = NotebookOptions
    /\ \E c \in SolverRun(m.feasible, DefaultIterations), k \in 0..MaxPoint :
         /\ m' = [m EXCEPT !.values = ValuesAt(k, m.desalination_nodes, m.s_T)]
         /\ termination' = Append(termination, Report(c, k))
    /\ solverInvocations' = solverInvocations + 1
    /\ solveCalls' = solveCalls + 1
    /\ nb_pc' = nextpc
    /\ UNCHANGED nb_error

SolveCell ==
    /\ nb_pc = "solve"
    /\ IpoptSolve("results")
    /\ UNCHANGED <<nb_input, network_data, desalination_dict, printed, design,
                   history>>
    /\ UNCHANGED <<mdVars, svVars>>

\* a results cell whose reading of the model disturbs the values it reads
PrintResults_Consuming(nextpc) ==
    /\ printed' = Append(printed, [epoch |-> solverInvocations,
                                   values |-> ResultsReport(m)])
    /\ m' = [m EXCEPT !.values =
                 ValuesAt(m.values.arc_cost + 1, m.desalination_nodes, m.s_T)]
    /\ nb_pc' = nextpc

\* cell 5866159f: pyo.value of each quantity is printed; nothing is assigned
\* and the solver's result is not consulted.
PrintResults(nextpc) ==
    /\ printed' = Append(printed, [epoch |-> solverInvocations,
                                   values |-> ResultsReport(m)])
    /\ m' = m
    /\ nb_pc' = nextpc

ResultsCell ==
    /\ nb_pc = "results"
    /\ PrintResults("backcalc")
    /\ UNCHANGED <<nb_input, network_data, desalination_dict, ipopt_options,
                   termination, solveCalls, solverInvocations, design, nb_error,
                   history>>
    /\ UNCHANGED <<mdVars, svVars>>

\* cell 5f275b62
BackCalcCell ==
    /\ nb_pc = "backcalc"
    /\ design' = BackCalculateDesign(m, desalination_dict)
    /\ nb_pc' = "done"
    /\ UNCHANGED <<nb_input, network_data, desalination_dict, m, ipopt_options,
                   termination, solveCalls, solverInvocations, printed, nb_error,
                   history>>
    /\ UNCHANGED <<mdVars, svVars>>

\* After the run the user executes the solve cell again: solve is called again.
RerunSolveCell ==
    /\ nb_pc = "done"
    /\ solveCalls < MaxSolves
    /\ IpoptSolve("done")
    /\ UNCHANGED <<nb_input, network_data, desalination_dict, printed, design,
                   history>>
    /\ UNCHANGED <<mdVars, svVars>>

\* After the run the user executes the results cell again.
RerunResultsCell ==
    /\ nb_pc = "done"
    /\ Len(printed) < MaxPrints
    /\ PrintResults("done")
    /\ UNCHANGED <<nb_input, network_data, desalination_dict, ipopt_options,
                   termination, solveCalls, solverInvocations, design, nb_error,
                   history>>
    /\ UNCHANGED <<mdVars, svVars>>

PreSolveErrors == {"DataFormatError", "ConfigurationError"}

\* How a run ended: refused before the solve, halted by another exception, or
\* run to the end with a solved or a failed latest TerminationReport.
RunOutcome ==
    IF nb_error \in PreSolveErrors THEN "refused"
    ELSE IF nb_error # NoError THEN "raised"
    ELSE IF Last(termination).status \in SolvedStatuses THEN "solved"
    ELSE "failed"

\* The next configuration of the sweep: a fresh kernel runs all cells.
StartRun ==
    /\ nb_pc \in {"done", "halted"}
    /\ Len(history) + 1 < MaxRuns
    /\ history' = Append(history, RunOutcome)
    /\ nb_input' \in NbInputs
    /\ nb_pc' = "load"
    /\ network_data' = None
    /\ desalination_dict' = None
    /\ m' = None
    /\ ipopt_options' = None
    /\ termination' = <<>>
    /\ solveCalls' = 0
    /\ solverInvocations' = 0
    /\ printed' = <<>>
    /\ design' = None
    /\ nb_error' = NoError
    /\ UNCHANGED <<mdVars, svVars>>

InitNb ==
    /\ nb_pc = "load"
    /\ network_data = None
    /\ desalination_dict = None
    /\ m = None
    /\ ipopt_options = None
    /\ termination = <<>>
    /\ solveCalls = 0
    /\ solverInvocations = 0
    /\ printed = <<>>
    /\ design = None
    /\ nb_error = NoError
    /\ history = <<>>

NextMVR ==
    \/ LoadCell
    \/ DictCell
    \/ BuildCell
    \/ SolveCell
    \/ ResultsCell
    \/ BackCalcCell
    \/ RerunSolveCell
    \/ RerunResultsCell
    \/ StartRun


\* ==================================================================== MD
\* Slider values are integers: salinity in units of 0.005 kg/kg, flowrate in
\* units of 0.1 kg/s, recovery in units of 0.1, and the recovery slider's max
\* in units of 1/60 (so that 1 - salinity/0.3 is the integer 60 - salinity).
SalinityDefault == 7
SalinityMin == 2
SalinityMax == 30
FlowrateDefault == 10
FlowrateMin == 1
FlowrateMax == 100
RecoveryDefault == 5
RecoveryMin == 1
\* the solubility limit 0.3 kg/kg in salinity units
SolubilityLimit == 60
\* one recovery unit (0.1) in units of 1/60
RecoveryUnit == 6

\* the salinity slider is moved in strides of this many steps
SalinityStride == 7
\* the flowrate slider is moved at most this many steps away from its default
MaxFlowMoves == 1

SalinityPositions ==
    {SalinityDefault}
    \cup {s \in SalinityMin..SalinityMax : (s - SalinityMin) % SalinityStride = 0}
FlowratePositions ==
    {f \in FlowrateMin..FlowrateMax :
        f \in (FlowrateDefault - MaxFlowMoves)..(FlowrateDefault + MaxFlowMoves)}

\* max=(1 - salinity_widget.value / 0.3), in units of 1/60
RecoveryMax(salinity) == SolubilityLimit - salinity

\* a (salinity, recovery) pair whose brine would exceed the solubility limit:
\* recovery > 1 - salinity/0.3
Supersaturating(salinity, recovery) ==
    RecoveryUnit * recovery > SolubilityLimit - salinity

Displays == {"system", "design", "state", "detailed_cost"}

\* the calls of on_run_button_clicked and run_simulation, in program order
RunOrder == <<"build", "set_operating_conditions", "initialize_system",
              "optimize_set_up", "solve", "display">>

IndexOf(call) == CHOOSE i \in 1..Len(RunOrder) : RunOrder[i] = call

NoLocals == [salinity |-> None, flowrate |-> None, model |-> None,
             calls |-> <<>>, termination |-> "none"]

MdIdle == md_pc = "idle"

\* the user drags the salinity slider
MoveSalinity ==
    /\ MdIdle
    /\ \E s \in SalinityPositions \ {salinity_widget} : salinity_widget' = s
    /\ UNCHANGED <<flowrate_widget, recovery_widget, checkboxes, md_pc,
                   md_local, output>>
    /\ UNCHANGED <<nbVars, svVars>>

\* the user drags the flowrate slider
MoveFlowrate ==
    /\ MdIdle
    /\ \E f \in FlowratePositions \ {flowrate_widget} : flowrate_widget' = f
    /\ UNCHANGED <<salinity_widget, recovery_widget, checkboxes, md_pc,
                   md_local, output>>
    /\ UNCHANGED <<nbVars, svVars>>

\* recovery_widget = widgets.FloatSlider(value=0.5, min=0.1,
\*     max=(1 - salinity_widget.value / 0.3), step=0.1): the max is computed
\* once, from the salinity the slider shows when the cell is executed.
NewRecoveryWidget ==
    [value |-> RecoveryDefault, max |-> RecoveryMax(salinity_widget)]

\* the user executes the recovery cell (again)
RecoveryCell ==
    /\ MdIdle
    /\ recovery_widget' = NewRecoveryWidget
    /\ UNCHANGED <<salinity_widget, flowrate_widget, checkboxes, md_pc,
                   md_local, output>>
    /\ UNCHANGED <<nbVars, svVars>>

\* the user drags the recovery slider, within the slider's own min and max
MoveRecovery ==
    /\ MdIdle
    /\ recovery_widget # None
    /\ \E r \in RecoveryMin..(SolubilityLimit \div RecoveryUnit) :
         /\ r # recovery_widget.value
         /\ RecoveryUnit * r <= recovery_widget.max
         /\ recovery_widget' = [recovery_widget EXCEPT !.value = r]
    /\ UNCHANGED <<salinity_widget, flowrate_widget, checkboxes, md_pc,
                   md_local, output>>
    /\ UNCHANGED <<nbVars, svVars>>

\* the user ticks or unticks one of the four check boxes
ToggleCheckbox ==
    /\ MdIdle
    /\ \E d \in Displays : checkboxes' = [checkboxes EXCEPT ![d] = ~@]
    /\ UNCHANGED <<salinity_widget, flowrate_widget, recovery_widget, md_pc,
                   md_local, output>>
    /\ UNCHANGED <<nbVars, svVars>>

\* on_run_button_clicked: the output is cleared and run_simulation is called
\* with the salinity and flowrate the sliders show.  (The button cell follows
\* the recovery cell, so the recovery slider exists.)
ClickRun ==
    /\ MdIdle
    /\ recovery_widget # None
    /\ output' = [kind |-> "empty"]
    /\ md_local' = [NoLocals EXCEPT !.salinity = salinity_widget,
                                    !.flowrate = flowrate_widget]
    /\ md_pc' = "build"
    /\ UNCHANGED <<salinity_widget, flowrate_widget, recovery_widget, checkboxes>>
    /\ UNCHANGED <<nbVars, svVars>>


\* a run_simulation that calls solve right after set_operating_conditions
NextCall_SolveEarly(call) ==
    IF call = "set_operating_conditions" THEN "solve"
    ELSE IF call = "solve" THEN "initialize_system"
    ELSE IF call = "initialize_system" THEN "optimize_set_up"
    ELSE IF call = "optimize_set_up" THEN "display"
    ELSE RunOrder[IndexOf(call) + 1]

\* the statement that follows a call that returned
NextCall(call) == RunOrder[IndexOf(call) + 1]

\* An exception leaves run_simulation and the handler; the Output widget shows
\* it, and the handler's locals are gone.
Raise(err, call) ==
    /\ output' = [kind |-> "error", error |-> err, raisedBy |-> call]
    /\ md_pc' = "idle"
    /\ md_local' = NoLocals

\* a handler that goes on to the next statement when a call raises
Returned_OrFailed(call, model, err) ==
    /\ md_local' = [md_local EXCEPT !.model = model, !.calls = Append(@, call)]
    /\ md_pc' = NextCall(call)
    /\ UNCHANGED output

\* A call of run_simulation has acted on the model: when it returned, the next
\* statement runs; when it raised err, nothing after it runs.
Returned(call, model, err) ==
    IF err = NoError
    THEN /\ md_local' = [md_local EXCEPT !.model = model,
                                         !.calls = Append(@, call)]
         /\ md_pc' = NextCall(call)
         /\ UNCHANGED output
    ELSE Raise(err, call)

\* model = md_flow.build()
MdBuild ==
    /\ md_pc = "build"
    /\ Returned("build",
                [conditions |-> None, initialized |-> FALSE, optimize |-> FALSE],
                NoError)
    /\ UNCHANGED <<salinity_widget, flowrate_widget, recovery_widget, checkboxes>>
    /\ UNCHANGED <<nbVars, svVars>>

\* How md_flow.set_operating_conditions can end on these conditions: it may
\* refuse a supersaturating pair (if it does not, the initialization does).
SetOperatingConditionsOutcomes(cond) ==
    {NoError} \cup
    (IF Supersaturating(cond.feed_mass_frac_TDS, cond.overall_recovery)
     THEN {"ConfigurationError"} ELSE {})

\* How md_flow.initialize_system can end: it fails when a sub-solve of the
\* seeding does not converge, and always on supersaturating conditions.
InitializeSystemOutcomes(cond) ==
    {"InitializationError"} \cup
    (IF Supersaturating(cond.feed_mass_frac_TDS, cond.overall_recovery)
     THEN {} ELSE {NoError})

\* md_flow.set_operating_conditions(model, feed_flow_mass=flowrate,
\*     feed_mass_frac_TDS=salinity, overall_recovery=recovery_widget.value):
\* the recovery is read from the global slider.
MdSetOperatingConditions ==
    /\ md_pc = "set_operating_conditions"
    /\ LET cond == [feed_flow_mass |-> md_local.flowrate,
                    feed_mass_frac_TDS |-> md_local.salinity,
                    overall_recovery |-> recovery_widget.value] IN
         \E err \in SetOperatingConditionsOutcomes(cond) :
            Returned("set_operating_conditions",
                     [md_local.model EXCEPT !.conditions = cond], err)
    /\ UNCHANGED <<salinity_widget, flowrate_widget, recovery_widget, checkboxes>>
    /\ UNCHANGED <<nbVars, svVars>>

\* md_flow.initialize_system(model)
MdInitializeSystem ==
    /\ md_pc = "initialize_system"
    /\ \E err \in InitializeSystemOutcomes(md_local.model.conditions) :
          Returned("initialize_system",
                   [md_local.model EXCEPT !.initialized = TRUE], err)
    /\ UNCHANGED <<salinity_widget, flowrate_widget, recovery_widget, checkboxes>>
    /\ UNCHANGED <<nbVars, svVars>>

\* md_flow.optimize_set_up(model)
MdOptimizeSetUp ==
    /\ md_pc = "optimize_set_up"
    /\ Returned("optimize_set_up", [md_local.model EXCEPT !.optimize = TRUE],
                NoError)
    /\ UNCHANGED <<salinity_widget, flowrate_widget, recovery_widget, checkboxes>>
    /\ UNCHANGED <<nbVars, svVars>>

\* md_flow.solve(model): one solver invocation; run_simulation drops the result
\* (kept here until the handler returns).
MdSolve ==
    /\ md_pc = "solve"
    /\ \E feasible \in BOOLEAN :
         \E c \in SolverRun(feasible, DefaultIterations) :
            /\ md_local' = [md_local EXCEPT !.calls = Append(@, "solve"),
                                            !.termination = Classify(c)]
            /\ md_pc' = NextCall("solve")
    /\ UNCHANGED <<salinity_widget, flowrate_widget, recovery_widget, checkboxes,
                   output>>
    /\ UNCHANGED <<nbVars, svVars>>

\* the four conditional md_flow.display_* calls; then the handler returns
MdDisplay ==
    /\ md_pc = "display"
    /\ output' = [kind |-> "results", shown |-> {d \in Displays : checkboxes[d]}]
    /\ md_pc' = "idle"
    /\ md_local' = NoLocals
    /\ UNCHANGED <<salinity_widget, flowrate_widget, recovery_widget, checkboxes>>
    /\ UNCHANGED <<nbVars, svVars>>

InitMd ==
    /\ salinity_widget = SalinityDefault
    /\ flowrate_widget = FlowrateDefault
    /\ recovery_widget = None
    /\ checkboxes = [d \in Displays |-> FALSE]
    /\ md_pc = "idle"
    /\ md_local = NoLocals
    /\ output = [kind |-> "empty"]

NextMD ==
    \/ MoveSalinity
    \/ MoveFlowrate
    \/ RecoveryCell
    \/ MoveRecovery
    \/ ToggleCheckbox
    \/ ClickRun
    \/ MdBuild
    \/ MdSetOperatingConditions
    \/ MdInitializeSystem
    \/ MdOptimizeSetUp
    \/ MdSolve
    \/ MdDisplay

\* ================================================ solve on drawn inputs
SolverOptionsSet == [barrierInitParam : {"1e-6", "1e-2"}, boundPush : {"1e-6"},
                     maxIterations : {{n} : n \in 0..MaxIter} \cup {DefaultIterations}]

InitSv ==
    /\ sv_model \in [feasible : BOOLEAN, point : {0}, solves : {0}]
    /\ sv_options \in SolverOptionsSet
    /\ sv_report = None

\* solve(model, options): the solver is invoked once with the options and its
\* condition is classified.
SvSolve ==
    /\ sv_model.solves < MaxSolves
    /\ \E c \in SolverRun(sv_model.feasible, sv_options.maxIterations),
          k \in 0..MaxPoint :
         /\ sv_report' = [condition |-> c, options |-> sv_options,
                          report |-> Report(c, k)]
         /\ sv_model' = [sv_model EXCEPT !.point = k, !.solves = @ + 1]
    /\ UNCHANGED sv_options
    /\ UNCHANGED <<nbVars, mdVars>>

\* the caller changes the options between two calls of solve
SvSetOptions ==
    /\ sv_report # None
    /\ sv_model.solves < MaxSolves
    /\ \E o \in SolverOptionsSet \ {sv_options} : sv_options' = o
    /\ UNCHANGED <<sv_model, sv_report>>
    /\ UNCHANGED <<nbVars, mdVars>>

NextSolve ==
    \/ SvSolve
    \/ SvSetOptions

SvIdle ==
    /\ sv_model = None
    /\ sv_options = None
    /\ sv_report = None

\* ======================================================== specifications
\* Each specification runs one part and leaves the other two as they start.
NbIdle == InitNb /\ nb_input = None

InitMVR == InitNb /\ nb_input \in NbInputs /\ InitMd /\ SvIdle
SpecMVR == InitMVR /\ [][NextMVR]_vars

InitMD == NbIdle /\ InitMd /\ SvIdle
SpecMD == InitMD /\ [][NextMD]_vars

InitSolve == NbIdle /\ InitMd /\ InitSv
SpecSolve == InitSolve /\ [][NextSolve]_vars

\* ================================================================ claims
\* C1: no ResultsReport is ever printed from a model whose latest
\* TerminationReport at that moment is Infeasible or SolverError.
C1_NoResultsFromFailedSolve ==
    \A i \in 1..Len(printed) :
        printed[i].epoch >= 1 =>
            termination[printed[i].epoch].status \notin {"Infeasible", "SolverError"}

\* C2: the overall_recovery handed to set_operating_conditions is at most
\* 1 - salinity/0.3 for the feed salinity handed to the same run.
C2_RecoveryWithinSolubility ==
    md_pc = "set_operating_conditions" =>
        ~Supersaturating(md_local.salinity, recovery_widget.value)

\* the run in progress was started on a supersaturating (salinity, recovery)
RunSupersaturating ==
    /\ md_pc # "idle"
    /\ Supersaturating(md_local.salinity, recovery_widget.value)

C5_StagesInOrder ==
    md_pc # "idle" =>
        md_local.calls = SubSeq(RunOrder, 1, IndexOf(md_pc) - 1)

\* C5 witness: a run has reached the display of results.
C5_Witness ==
    /\ md_pc = "display"
    /\ md_local.calls = <<"build", "set_operating_conditions",
                          "initialize_system", "optimize_set_up", "solve">>

C7_OneInvocationPerSolve ==
    /\ solverInvocations = solveCalls
    /\ Len(termination) = solveCalls

\* C7 witness: a failed solve, and a second invocation made by a second call.
C7_Witness ==
    /\ solveCalls = 2
    /\ solverInvocations = 2
    /\ termination[1].status \in FailedStatuses

C9_OptionsNotGlobal ==
    [][solverInvocations' # solverInvocations
          => ipopt_options' = ipopt_options]_vars

\* C10: every execution of the results cell leaves the model and its
\* TerminationReports as they were, and prints the same values as the
\* execution before it when no solve came in between.
C10_ExtractReadOnlyIdempotent ==
    [][Len(printed') > Len(printed) =>
          /\ m' = m
          /\ termination' = termination
          /\ (Len(printed) >= 1 /\ Last(printed).epoch = Last(printed').epoch)
                => Last(printed').values = Last(printed).values]_vars

\* C10 witness: a solved model whose results were printed twice in a row.
C10_Witness ==
    /\ Len(printed) = 2
    /\ printed[1].epoch = printed[2].epoch
    /\ printed[1].values = printed[2].values
    /\ Last(termination).status \in SolvedStatuses
    /\ printed[2].epoch = Len(termination)

=============================================================================
